---- MODULE Spec2Model ----
(***************************************************************************)
(* ratesreader: the concurrent fetch-and-normalise layer.                  *)
(*                                                                         *)
(* One reader instance (TronWalletReader, BscScanWalletReader or           *)
(* HTMLReader) runs a batch operation: one asyncio task per target, every  *)
(* task executing UrlReader._get_raw_data on the SAME reader instance, so  *)
(* the instance attributes __result, __response_status and __response_url  *)
(* are shared by the tasks.  A task is split at its suspension points      *)
(* (asyncio.sleep, session.get, the body read); the code between two       *)
(* suspension points is one atomic action.                                 *)
(*                                                                         *)
(* Spec       the batch readers (Tron, BscScan, HTMLReader, XeReader)      *)
(* FairSpec   the batch dispatch under the scheduling of the event loop    *)
(* SpecFeed   YahooReader, MOEXReader, GarantexReader: one awaited call    *)
(*            per operation, the reader used again and again               *)
(* SpecConfig the constructors and the target-set setters                  *)
(***************************************************************************)
EXTENDS Integers, Sequences, FiniteSets, TLC

\* ------------------------------------------------------------------ bounds
MaxWallets == 2
MaxTrn == 3

\* ------------------------------------------------------- program constants
TRON_API_URL == "https://api.trongrid.io/v1/accounts/"
TRON_USDT_CONTRACT == "TR7NHqjeKQxGTCi8q8ZY4pL8otSzgjLj6t"
YAHOO_API_URL == "https://query2.finance.yahoo.com/v7/finance/quote"
MOEX_API_URL == "https://iss.moex.com/iss/engines/currency/markets/selt/boards/CETS/securities.json"
GARANTEX_API_URL == "https://garantex.io/api/v2/depth"
BSCSCAN_API_URL == "https://api.bscscan.com/api/"
BSCSCAN_USDT_CONTRACT == "0x55d398326f99059ff775485246999027b3197955"
OTHER_CONTRACT == "other-contract"

\* Python values that are not payloads
None == [type |-> "None"]
ValueError == [type |-> "ValueError"]
\* marker for "the mapping has no key wallet_address"
NoKey == "<no key>"

\* ------------------------------------------------------------ the inputs
TargetPool == <<"a", "b", "c", "d">>

\* ''.join(value.split()).split(',') of "a,b" is the list of names; of "a,,b"
\* or "a," it has an empty string in it
Prefix(n) == SubSeq(TargetPool, 1, n)

WithEmpty(n, k) == [i \in 1..n |-> IF i = k THEN "" ELSE TargetPool[i]]

WalletLists == {Prefix(n) : n \in 1..MaxWallets}

TargetLists == WalletLists \cup UNION {{WithEmpty(n, k) : k \in 1..n} : n \in 1..MaxWallets}

\* the symbols MOEXReader is configured with: "ab" has the shorter security
\* ID "a" inside it
MoexPool == <<"ab", "c", "d", "e">>

MoexLists == {SubSeq(MoexPool, 1, n) : n \in 1..MaxWallets}

\* the readers that dispatch a batch of tasks
Kinds == {"tron", "bsc", "html", "xe"}

\* the readers that await one _get_raw_data call
FeedKinds == {"yahoo", "moex", "garantex"}

Ops(k) ==
    CASE k \in {"tron", "bsc"} -> {"get_balances", "get_transactions"}
      [] k = "html" -> {"get_pages"}
      [] k = "garantex" -> {"get_dom"}
      [] OTHER -> {"get_rates"}

\* the url the constructor passes to UrlReader.__init__
DefaultUrl(k) ==
    CASE k = "tron" -> <<TRON_API_URL>>
      [] k = "bsc" -> <<BSCSCAN_API_URL>>
      [] k = "yahoo" -> <<YAHOO_API_URL>>
      [] k = "moex" -> <<MOEX_API_URL>>
      [] k = "garantex" -> <<GARANTEX_API_URL>>
      [] OTHER -> <<>>

\* A value passed as target set: a str (text, its characters), a list (items,
\* all of type of; items that are no strings are given by their repr), or
\* something else (None, an int)
Supplied(shape, text, items, of) ==
    [shape |-> shape, text |-> text, items |-> items, of |-> of]

TargetValues ==
    { Supplied("str", <<"a">>, <<>>, ""),
      Supplied("str", <<"a", ",", " ", "b">>, <<>>, ""),
      Supplied("list", <<>>, <<>>, "str"),
      Supplied("list", <<>>, <<"b">>, "str"),
      Supplied("list", <<>>, <<"a", "b">>, "str"),
      Supplied("list", <<>>, <<"1", "2">>, "int"),
      Supplied("list", <<>>, <<"['b']">>, "list"),
      Supplied("None", <<>>, <<>>, ""),
      Supplied("int", <<>>, <<>>, "") }

\* the targets a reader of kind k may be configured with
Targets(k) ==
    CASE k = "html" -> TargetLists
      [] k = "moex" -> MoexLists
      [] k = "garantex" -> {<<"usdtrub">>}
      [] OTHER -> WalletLists

DefaultContract(k) == IF k = "bsc" THEN BSCSCAN_USDT_CONTRACT ELSE TRON_USDT_CONTRACT

\* str.upper() on the strings of the model
Upper(s) ==
    CASE s = "a" -> "A"
      [] s = "b" -> "B"
      [] s = "c" -> "C"
      [] s = "d" -> "D"
      [] s = "x" -> "X"
      [] s = "ok" -> "OK"
      [] s = "usdt" -> "USDT"
      [] s = "bsc-usd" -> "BSC-USD"
      [] OTHER -> s

\* the elements of a sequence
Range(f) == {f[x] : x \in DOMAIN f}

\* f"{a}{b}": a string is the sequence of its non-empty parts, "" is << >>
Concat(a, b) == a \o (IF b = "" THEN <<>> ELSE <<b>>)

VARIABLES
    kind,             \* which reader class the instance is
    url,              \* UrlReader.__url
    usdt_contract,    \* self.usdt_contract
    wallets,          \* self.__wallets (HTMLReader: self.__urls)
    given,            \* the target set last passed to the constructor or a setter
    result,           \* UrlReader.__result, shared by all tasks of the reader
    response_status,  \* UrlReader.__response_status
    response_url,     \* UrlReader.__response_url
    op,               \* the batch operation in progress
    delay,            \* per task: the delay it has still to sleep (ms)
    phase,            \* "idle", "gather", "gathered", "returned", "raised"
    pc,               \* per task: position in _get_raw_data
    ret,              \* per task: the task's outcome (return value or exception)
    reply,            \* per task: what the network answered (history)
    issued,           \* per task: number of requests issued
    responses,        \* the tuple returned by asyncio.gather
    tables,           \* urls / trnx_urls (Tron), balance_params_list / trnx_params_list (BscScan)
    out               \* the value the operation returned / the exception it raised

vars == <<kind, url, usdt_contract, wallets, given, result, response_status, response_url,
          op, delay, phase, pc, ret, reply, issued, responses, tables, out>>

config == <<kind, usdt_contract, wallets, given, tables>>

WalletBatch == kind \in {"tron", "bsc"}

\* the number of _get_raw_data calls of one operation: one per target in a
\* batch, one in all for a feed reader
N == IF kind \in FeedKinds THEN 1 ELSE Len(wallets)

Tasks == 1..N

\* ------------------------------------------------- the derived request tables
\* TronWalletReader.urls / trnx_urls as the wallets setter builds them from
\* the wallet list ws and the value u of self.url: a dict keyed by wallet
urls(ws, u) == [w \in Range(ws) |-> Concat(u, w)]

trnx_urls(ws, u) == [w \in Range(ws) |-> Concat(u, w) \o <<"/transactions/trc20">>]

\* one entry of BscScanWalletReader.balance_params_list (c is self.usdt_contract)
\* and of trnx_params_list
balance_params(w, c) ==
    [action |-> "tokenbalance", contractaddress |-> c, address |-> w]

trnx_params(w) ==
    [action |-> "tokentx", contractaddress |-> BSCSCAN_USDT_CONTRACT, address |-> w]

NoParams == [action |-> "", contractaddress |-> "", address |-> ""]

\* the attributes as the constructors create them, before the first
\* assignment to wallets
NoTables ==
    [urls |-> <<>>, trnx_urls |-> <<>>,
     balance_params_list |-> <<>>, trnx_params_list |-> <<>>]

\* the last two statements of the wallets setters of a reader of kind k
Built(k, ws, u, c) ==
    CASE k = "tron" ->
            [NoTables EXCEPT !.urls = urls(ws, u), !.trnx_urls = trnx_urls(ws, u)]
      [] k = "bsc" ->
            [NoTables EXCEPT
                !.balance_params_list = [i \in 1..Len(ws) |-> balance_params(ws[i], c)],
                !.trnx_params_list = [i \in 1..Len(ws) |-> trnx_params(ws[i])]]
      [] OTHER -> NoTables

\* the url argument task i passes to _get_raw_data: the i-th item of the dict
\* of the operation (the wallets of the model are distinct)
TaskUrl(i) ==
    CASE kind = "tron" ->
            IF op = "get_balances" THEN tables.urls[wallets[i]]
            ELSE tables.trnx_urls[wallets[i]]
      [] kind = "bsc" -> url
      [] kind \in {"yahoo", "moex"} -> url
      [] kind = "garantex" -> <<>>
      [] OTHER -> Concat(<<>>, wallets[i])

\* the params argument task i passes
TaskParams(i) ==
    CASE kind = "bsc" ->
            IF op = "get_balances" THEN tables.balance_params_list[i]
            ELSE tables.trnx_params_list[i]
      [] OTHER -> NoParams

\* task_key / task_name of task i ("" when none is passed)
TaskKey(i) == IF kind \in {"tron", "bsc"} THEN "wallet_address" ELSE ""

TaskName(i) ==
    CASE kind = "tron" -> wallets[i]
      [] kind = "bsc" -> TaskParams(i).address
      [] OTHER -> ""

\* url = url or self.__url
EffectiveUrl(i) == IF TaskUrl(i) # <<>> THEN TaskUrl(i) ELSE url

\* --------------------------------------------------- what the providers answer
\* A decoded JSON mapping.  src is history: the target whose request this body
\* answers.  wallet_address is NoKey while the mapping has no such key.
\* Tron reads success, data and error; BscScan reads message and result (the
\* array of tokentx is held in data).  keys is the set of those keys the
\* mapping has.
ExpectedKeys == IF kind = "tron" THEN {"success", "data", "error"} ELSE {"message", "result"}

Dict(src, key, success, message, data, res) ==
    [type |-> "dict", src |-> src, wallet_address |-> key, success |-> success,
     message |-> message, data |-> data, result |-> res, keys |-> ExpectedKeys]

\* The text of a fetched page (HTML mode)
Text(src) == [type |-> "str", src |-> src]

\* A fetched converter page: rate is what the xpath query of XeReader.get_rates
\* selects in it, a list of text nodes, each given as the list of its words
Page(src, rate) == [type |-> "str", src |-> src, rate |-> rate]

\* the words of the rate paragraph for the pair of task i
MetaRate(i) == <<"1.00", wallets[i], "=", "1,075", "RUB">>

\* the pages xe.com may answer with: no node matches, the node is blank, the
\* node has the rate
XePages(i) == {Page(wallets[i], r) : r \in {<<>>, << <<>> >>, << MetaRate(i) >>}}

\* A decoded JSON object of a feed: keys is the set of its top-level keys
Json(src, keys, rows, marketdata, asks, bids) ==
    [type |-> "dict", src |-> src, wallet_address |-> NoKey, keys |-> keys,
     rows |-> rows, marketdata |-> marketdata, asks |-> asks, bids |-> bids]

\* {}
EmptyJson(src) == Json(src, {}, <<>>, <<>>, <<>>, <<>>)

\* Yahoo answers with one quote per requested symbol, the price given as the
\* text str() makes of it
YahooQuotes ==
    [n \in 1..Len(wallets) |->
        [symbol |-> wallets[n], shortName |-> <<"name", wallets[n]>>,
         regularMarketPrice |-> <<"71", "72", "73", "74">>[n]]]

YahooBodies == {Json("yahoo", {"quoteResponse"}, YahooQuotes, <<>>, <<>>, <<>>)}

\* rows of securities.data (SECID, SHORTNAME, SECNAME) and of marketdata.data
\* (WAPRICE, UPDATETIME, SECID, SYSTIME); WAPRICE "" is a null price
Security(secid) == [secid |-> secid, shortname |-> <<"short", secid>>, secname |-> <<"sec", secid>>]

MarketRow(waprice, secid) == [waprice |-> waprice, secid |-> secid, systime |-> "2022-01-01 10:00:00"]

\* the board lists every instrument, whatever symbols the reader is configured with
MoexBodies ==
    { Json("moex", {"securities", "marketdata"},
           <<Security("ab"), Security("a"), Security("c")>>,
           <<MarketRow("10", "ab"), MarketRow("20", "a"), MarketRow("", "c")>>,
           <<>>, <<>>),
      Json("moex", {"securities", "marketdata"},
           <<Security("ab"), Security("c"), Security("d")>>,
           <<MarketRow("10", "ab"), MarketRow("30", "c"), MarketRow("", "d")>>,
           <<>>, <<>>) }

\* depth of market: rows of price and factor, best first
Row(price, factor) == [price |-> price, factor |-> factor]

GarantexBodies ==
    { Json("garantex", {"asks", "bids", "timestamp"}, <<>>, <<>>,
           <<Row("75", "1"), Row("76", "2")>>, <<Row("74", "1"), Row("73", "2")>>),
      Json("garantex", {"asks", "bids", "timestamp"}, <<>>, <<>>,
           <<>>, <<Row("74", "1")>>) }

TrackedSymbol(k) == IF k = "bsc" THEN "BSC-USD" ELSE "USDT"

Transfer(from, to, value, address, symbol, ts) ==
    [from |-> from, to |-> to, value |-> value, address |-> address,
     symbol |-> symbol, ts |-> ts]

\* The token transfers the provider knows for wallet w, most recent first
Ledger(k, w) ==
    << Transfer("x", w, 7, OTHER_CONTRACT, TrackedSymbol(k), 9),
       Transfer(w, "x", 100, DefaultContract(k), TrackedSymbol(k), 8),
       Transfer("x", w, 40, DefaultContract(k), TrackedSymbol(k), 7),
       Transfer("x", w, 3, DefaultContract(k), "DOGE", 6),
       Transfer(Upper(w), "x", 5, DefaultContract(k), TrackedSymbol(k), 5) >>

\* BscScan's tokentx answers for the contract named in the request; Trongrid's
\* /transactions/trc20 answers with the account's transfers of every token
ServerTransfers(i) ==
    IF kind = "bsc"
    THEN SelectSeq(Ledger(kind, wallets[i]),
                   LAMBDA t : t.address = TaskParams(i).contractaddress)
    ELSE Ledger(kind, wallets[i])

\* one page of the answer: the first MaxTrn transfers
TrnPage(i) ==
    SubSeq(ServerTransfers(i), 1,
           IF MaxTrn < Len(ServerTransfers(i)) THEN MaxTrn ELSE Len(ServerTransfers(i)))

\* Trongrid account data: items with a trc20 list of {contract: amount}
\* entries; keys tells whether the item has the key trc20 at all
TronAccounts ==
    { << [keys |-> {"trc20"},
          trc20 |-> << [contract |-> OTHER_CONTRACT, amount |-> 7],
                       [contract |-> TRON_USDT_CONTRACT, amount |-> 5] >>] >>,
      << [keys |-> {"trc20"},
          trc20 |-> << [contract |-> OTHER_CONTRACT, amount |-> 7] >>] >>,
      << [keys |-> {"trc20"}, trc20 |-> <<>>] >>,
      << [keys |-> {}, trc20 |-> <<>>] >> }

\* BscScan's tokenbalance answers with the balance of the requested contract
BscBalance(i) == IF TaskParams(i).contractaddress = BSCSCAN_USDT_CONTRACT THEN 5 ELSE 7

\* values a response body may already carry under the key wallet_address
PreKeys(i) == {"x"} \cup {wallets[j] : j \in {(i % N) + 1} \ {i}}

\* the successful bodies for task i, before the correlation key is looked at
OkBodies(i) ==
    CASE op = "get_pages" -> {Text(wallets[i])}
      [] kind = "xe" -> XePages(i)
      [] kind = "yahoo" -> YahooBodies \cup {EmptyJson("yahoo")}
      [] kind = "moex" -> MoexBodies \cup {EmptyJson("moex")}
      [] kind = "garantex" -> GarantexBodies \cup {EmptyJson("garantex")}
      [] op = "get_balances" /\ kind = "tron" ->
            {Dict(wallets[i], NoKey, TRUE, "", d, 0) : d \in TronAccounts}
      [] op = "get_balances" /\ kind = "bsc" ->
            {Dict(wallets[i], NoKey, FALSE, "OK", <<>>, BscBalance(i))}
      [] op = "get_transactions" /\ kind = "tron" ->
            {Dict(wallets[i], NoKey, TRUE, "", TrnPage(i), 0)}
      [] OTHER ->
            {Dict(wallets[i], NoKey, FALSE, "OK", TrnPage(i), 0)}

\* the body of a provider-reported failure
FailBody(i) ==
    IF kind = "tron" THEN Dict(wallets[i], NoKey, FALSE, "", <<>>, 0)
    ELSE Dict(wallets[i], NoKey, FALSE, "NOTOK", <<>>, 0)

\* a decoded mapping of unrecognized shape: none of the expected keys
UnrecognizedBody(i) == [Dict(wallets[i], NoKey, FALSE, "", <<>>, 0) EXCEPT !.keys = {}]

\* a JSON document that is no mapping: an array
NonMapping(i) == [type |-> "list", src |-> wallets[i]]

\* a body that already has the key wallet_address
CollidingBodies(i) ==
    LET b == CHOOSE c \in OkBodies(i) : \A d \in OkBodies(i) : Len(d.data) <= Len(c.data)
    IN  {[b EXCEPT !.wallet_address = k] : k \in PreKeys(i)}

\* every body task i may decode
Bodies(i) ==
    IF ~WalletBatch THEN OkBodies(i)
    ELSE OkBodies(i) \cup {FailBody(i), UnrecognizedBody(i), NonMapping(i)}
            \cup CollidingBodies(i)

StatusCodes == {200, 429}

\* the status the responses of a batch carry: no statement reads the status
\* back, one value is enough where the calls of a batch overlap
BatchStatusCodes == {200}

Pending == [type |-> "pending"]

NetError(e) == [type |-> e]

\* ------------------------------------------------------------------- Init
\* a reader of one of the kinds K as its constructor leaves it
Constructed(K) ==
    /\ kind \in K
    /\ wallets \in Targets(kind)
    /\ given = Supplied("list", <<>>, wallets, "str")
    /\ usdt_contract \in
            (IF kind \in {"tron", "bsc"} THEN {DefaultContract(kind), OTHER_CONTRACT}
             ELSE {TRON_USDT_CONTRACT})
    /\ url = DefaultUrl(kind)
    /\ tables = Built(kind, wallets, url, usdt_contract)
    /\ result = None
    /\ response_status = 0
    /\ response_url = <<>>
    /\ op = ""
    /\ delay = [i \in Tasks |-> 0]
    /\ phase = "idle"
    /\ pc = [i \in Tasks |-> "none"]
    /\ ret = [i \in Tasks |-> None]
    /\ reply = [i \in Tasks |-> Pending]
    /\ issued = [i \in Tasks |-> 0]
    /\ responses = <<>>
    /\ out = None

Init == Constructed(Kinds)

\* ------------------------------------------------------------- the setters
\* UrlReader.url setter, between operations
url_setter(u) ==
    /\ phase = "idle"
    /\ url # u
    /\ url' = u
    /\ UNCHANGED <<config, delay, result, response_status, response_url, op, phase, pc, ret,
                   reply, issued, responses, out>>

\* ------------------------------------------------------ the batch dispatch
\* random.uniform(0.07, 0.09) / random.uniform(0.01, 0.03), in milliseconds,
\* the two ends of each range; get_pages passes no delay
Jitter(k) ==
    IF k = "tron" THEN {70, 90}
    ELSE IF k = "bsc" THEN {10, 30}
    ELSE {0}

\* the same delay for every task of the batch
TaskDelay_flat(base, i) == base

\* delay=delay * i for i, ... in enumerate(..., start=1); the parameter's
\* default 0 when no delay is passed
TaskDelay(base, i) == base * i

\* get_balances / get_transactions / get_pages up to and including the
\* creation of one task per target (__fetch_urls, get_pages)
fetch_urls(o) ==
    /\ phase = "idle"
    /\ op' = o
    /\ \E base \in Jitter(kind) : delay' = [i \in Tasks |-> TaskDelay(base, i)]
    /\ phase' = "gather"
    /\ pc' = [i \in Tasks |-> "created"]
    /\ UNCHANGED <<config, url, result, response_status, response_url, ret, reply,
                   issued, responses, out>>

\* a feed reader's operation up to its await of _get_raw_data: one call, no
\* delay argument
feed_call(o) ==
    /\ phase = "idle"
    /\ kind \in FeedKinds
    /\ op' = o
    /\ delay' = [i \in Tasks |-> 0]
    /\ phase' = "gather"
    /\ pc' = [i \in Tasks |-> "created"]
    /\ UNCHANGED <<config, url, result, response_status, response_url, ret, reply,
                   issued, responses, out>>

\* if not url and not self.__url
UrlMissing(i) == EffectiveUrl(i) = <<>> /\ url = <<>>

\* the tasks run their first step in creation order
MayStart(i) == \A j \in Tasks : j < i => pc[j] # "created"

\* the url check made after self.__result = None
get_raw_data_raise_late(i) ==
    /\ phase = "gather"
    /\ pc[i] = "created"
    /\ MayStart(i)
    /\ UrlMissing(i)
    /\ result' = None
    /\ pc' = [pc EXCEPT ![i] = "done"]
    /\ ret' = [ret EXCEPT ![i] = ValueError]
    /\ UNCHANGED <<config, delay, url, response_status, response_url, op, phase,
                   reply, issued, responses, out>>

\* _get_raw_data: both urls empty, ValueError leaves the coroutine
get_raw_data_raise(i) ==
    /\ phase = "gather"
    /\ pc[i] = "created"
    /\ MayStart(i)
    /\ UrlMissing(i)
    /\ pc' = [pc EXCEPT ![i] = "done"]
    /\ ret' = [ret EXCEPT ![i] = ValueError]
    /\ UNCHANGED <<config, delay, url, result, response_status, response_url, op, phase,
                   reply, issued, responses, out>>

\* _get_raw_data without the reset of self.__result
get_raw_data_begin_keep(i) ==
    /\ phase = "gather"
    /\ pc[i] = "created"
    /\ MayStart(i)
    /\ ~UrlMissing(i)
    /\ pc' = [pc EXCEPT ![i] = "sleeping"]
    /\ UNCHANGED <<config, delay, url, result, response_status, response_url, op, phase,
                   ret, reply, issued, responses, out>>

\* _get_raw_data up to the suspension in asyncio.sleep(delay)
get_raw_data_begin(i) ==
    /\ phase = "gather"
    /\ pc[i] = "created"
    /\ MayStart(i)
    /\ ~UrlMissing(i)
    /\ result' = None
    /\ pc' = [pc EXCEPT ![i] = "sleeping"]
    /\ UNCHANGED <<config, delay, url, response_status, response_url, op, phase, ret,
                   reply, issued, responses, out>>

\* asyncio.sleep(delay): every task runs its first step in the loop iteration
\* that created it, and the sleeps end in the order of their delays, equal
\* delays first-in first-out (sleep(0) yields once)
MayWake(i) ==
    /\ \A j \in Tasks : pc[j] # "created"
    /\ \A j \in Tasks :
          pc[j] = "sleeping" => ~(delay[j] < delay[i] \/ (delay[j] = delay[i] /\ j < i))

\* the sleep ends and session.get issues the request
get_raw_data_request(i) ==
    /\ phase = "gather"
    /\ pc[i] = "sleeping"
    /\ MayWake(i)
    /\ delay' = [delay EXCEPT ![i] = 0]
    /\ pc' = [pc EXCEPT ![i] = "requesting"]
    /\ issued' = [issued EXCEPT ![i] = @ + 1]
    /\ UNCHANGED <<config, url, result, response_status, response_url, op, phase,
                   ret, reply, responses, out>>

\* session.get raises and the UnboundLocalError of the handler leaves the call
get_raw_data_connect_error_propagating(i) ==
    /\ phase = "gather"
    /\ pc[i] = "requesting"
    /\ pc' = [pc EXCEPT ![i] = "done"]
    /\ ret' = [ret EXCEPT ![i] = NetError("UnboundLocalError")]
    /\ reply' = [reply EXCEPT ![i] = NetError("connect_error")]
    /\ UNCHANGED <<config, delay, url, result, response_status, response_url, op, phase,
                   issued, responses, out>>

\* session.get raises aiohttp.ClientError: no response object exists, the
\* handler's response.text() raises UnboundLocalError, and the return in the
\* finally clause discards it and returns self.__result as it is now
get_raw_data_connect_error(i) ==
    /\ phase = "gather"
    /\ pc[i] = "requesting"
    /\ pc' = [pc EXCEPT ![i] = "done"]
    /\ ret' = [ret EXCEPT ![i] = result]
    /\ reply' = [reply EXCEPT ![i] = NetError("connect_error")]
    /\ UNCHANGED <<config, delay, url, result, response_status, response_url, op, phase,
                   issued, responses, out>>

\* session.get never completes: no timeout is passed and nothing cancels the
\* task, which stays suspended.  Where no fairness is assumed a request that
\* is never answered is a behaviour already; the action is a step of its own
\* only under FairSpec
get_raw_data_hang(i) ==
    /\ phase = "gather"
    /\ pc[i] = "requesting"
    /\ pc' = [pc EXCEPT ![i] = "hung"]
    /\ reply' = [reply EXCEPT ![i] = NetError("hung")]
    /\ UNCHANGED <<config, delay, url, result, response_status, response_url, op, phase,
                   ret, issued, responses, out>>

\* the response head arrives but the reader's status and response_url are not
\* written
get_raw_data_response_unrecorded(i, st) ==
    /\ phase = "gather"
    /\ pc[i] = "requesting"
    /\ st \in StatusCodes
    /\ pc' = [pc EXCEPT ![i] = "reading"]
    /\ UNCHANGED <<config, delay, url, result, response_status, response_url,
                   op, phase, ret, reply, issued, responses, out>>

\* the response head arrives: url and status are recorded, the body read suspends
get_raw_data_response(i, st) ==
    /\ phase = "gather"
    /\ pc[i] = "requesting"
    /\ response_url' = EffectiveUrl(i)
    /\ response_status' = st
    /\ pc' = [pc EXCEPT ![i] = "reading"]
    /\ UNCHANGED <<config, delay, url, result, op, phase, ret, reply, issued, responses, out>>

\* the body cannot be read and the call issues its request once more
get_raw_data_read_error_retry(i) ==
    /\ phase = "gather"
    /\ pc[i] = "reading"
    /\ issued[i] < 3
    /\ pc' = [pc EXCEPT ![i] = "sleeping"]
    /\ UNCHANGED <<config, delay, url, result, response_status, response_url, op, phase,
                   ret, reply, issued, responses, out>>

\* response.json() / response.text() raises (payload error, wrong content
\* type, invalid JSON): the handler logs and the finally clause returns
\* self.__result as it is now
get_raw_data_read_error(i) ==
    /\ phase = "gather"
    /\ pc[i] = "reading"
    /\ pc' = [pc EXCEPT ![i] = "done"]
    /\ ret' = [ret EXCEPT ![i] = result]
    /\ reply' = [reply EXCEPT ![i] = NetError("read_error")]
    /\ UNCHANGED <<config, delay, url, result, response_status, response_url, op, phase,
                   issued, responses, out>>

\* if self.__result and task_key and task_key in self.__result and JSON mode
Collides(i, b) == TaskKey(i) # "" /\ b.type = "dict" /\ b.wallet_address # NoKey

\* self.__result[task_key] = task_name: an array cannot be subscripted by a
\* str, the TypeError is caught by "except Exception" and the array stays
Inject(i, b) ==
    IF TaskKey(i) # "" /\ b.type = "dict"
    THEN [b EXCEPT !.wallet_address = TaskName(i)]
    ELSE b

\* what self.__result holds when the body b has been decoded and the rest of
\* the try block has run: on a collision KeyError is raised before the
\* injection and caught by "except Exception"
Decoded(i, b) == IF Collides(i, b) THEN b ELSE Inject(i, b)

\* the body is decoded; no suspension from here to the return
get_raw_data_decoded(i, b) ==
    /\ phase = "gather"
    /\ pc[i] = "reading"
    /\ result' = Decoded(i, b)
    /\ pc' = [pc EXCEPT ![i] = "done"]
    /\ ret' = [ret EXCEPT ![i] = result']
    /\ reply' = [reply EXCEPT ![i] = b]
    /\ UNCHANGED <<config, delay, url, response_status, response_url, op, phase, issued,
                   responses, out>>

\* gather with a deadline: the dispatch stops waiting for tasks that hang
gather_with_timeout ==
    /\ phase = "gather"
    /\ \A i \in Tasks : pc[i] \in {"done", "hung"}
    /\ responses' = [i \in Tasks |-> ret[i]]
    /\ phase' = "gathered"
    /\ UNCHANGED <<config, delay, url, result, response_status, response_url, op, pc, ret,
                   reply, issued, out>>

\* gather without return_exceptions: the first exception of a task leaves
\* the dispatch at once, the siblings still running
gather_propagating ==
    /\ phase = "gather"
    /\ \/ /\ \E i \in Tasks : pc[i] = "done" /\ ret[i] = ValueError
          /\ phase' = "raised"
          /\ out' = ValueError
          /\ UNCHANGED responses
       \/ /\ \A i \in Tasks : pc[i] = "done" /\ ret[i] # ValueError
          /\ responses' = [i \in Tasks |-> ret[i]]
          /\ phase' = "gathered"
          /\ UNCHANGED out
    /\ UNCHANGED <<config, delay, url, result, response_status, response_url, op, pc, ret,
                   reply, issued>>

\* asyncio.gather(*tasks, return_exceptions=True): slot i is the outcome of
\* task i, an exception being an outcome
gather ==
    /\ phase = "gather"
    /\ \A i \in Tasks : pc[i] = "done"
    /\ responses' = [i \in Tasks |-> ret[i]]
    /\ phase' = "gathered"
    /\ UNCHANGED <<config, delay, url, result, response_status, response_url, op, pc, ret,
                   reply, issued, out>>

\* ------------------------------------------------------ the adapters' loops
\* wallets[k] = v on the local dict of get_balances / get_transactions
DictSet(d, k, v) == [x \in DOMAIN d \cup {k} |-> IF x = k THEN v ELSE d[x]]

\* the loop state: the local dict, and the exception that left the loop ("" if none)
Acc(d, exc) == [wallets |-> d, raised |-> exc]

\* next(item for item in balance['data'] if item["trc20"]), then the first
\* entry of its list that has the key usdt_contract, as an integer; 0 otherwise
\* item["trc20"] in the generator of line 365: the scan stops at the first
\* item with a non-empty list, and an item without the key reached before it
\* raises KeyError
Trc20KeyError(data) ==
    \E n \in 1..Len(data) :
        /\ "trc20" \notin data[n].keys
        /\ \A m \in 1..(n - 1) : data[m].trc20 = <<>>

TronBalance(data, contract) ==
    LET items == SelectSeq(data, LAMBDA item : item.trc20 # <<>>)
    IN  IF items = <<>> THEN 0
        ELSE LET hits == SelectSeq(items[1].trc20, LAMBDA e : e.contract = contract)
             IN  IF hits = <<>> THEN 0 ELSE hits[1].amount

\* TronWalletReader.get_balances, one pass of the loop body
tron_balance_item(acc, balance) ==
    IF balance.type # "dict" THEN Acc(acc.wallets, "TypeError")
    ELSE IF "success" \notin balance.keys THEN Acc(acc.wallets, "KeyError")
    ELSE IF ~balance.success
         THEN IF "error" \notin balance.keys
              THEN Acc(DictSet(acc.wallets, balance.wallet_address, -1), "KeyError")
              ELSE Acc(DictSet(acc.wallets, balance.wallet_address, -1), "")
         ELSE IF "data" \notin balance.keys \/ Trc20KeyError(balance.data)
              THEN Acc(acc.wallets, "KeyError")
              ELSE Acc(DictSet(acc.wallets, balance.wallet_address,
                               TronBalance(balance.data, usdt_contract)), "")

\* BscScanWalletReader.get_balances, one pass of the loop body
bsc_balance_item(acc, balance) ==
    IF balance.type # "dict" THEN Acc(acc.wallets, "TypeError")
    ELSE IF "message" \notin balance.keys THEN Acc(acc.wallets, "KeyError")
    ELSE IF Upper(balance.message) = "OK"
         THEN IF "result" \notin balance.keys THEN Acc(acc.wallets, "KeyError")
              ELSE Acc(DictSet(acc.wallets, balance.wallet_address, balance.result), "")
         ELSE Acc(DictSet(acc.wallets, balance.wallet_address, -1), "")

\* the filter of TronWalletReader.get_transactions
TronKept(trn) == ~(trn.address # TRON_USDT_CONTRACT \/ Upper(trn.symbol) # "USDT")

\* the filter of BscScanWalletReader.get_transactions
BscKept(trn) == ~(trn.symbol # "BSC-USD")

\* the record appended for a kept transfer; sender tells whether the queried
\* wallet is trn['from']
Record(trn, sender) ==
    IF sender
    THEN [wallet |-> trn.to, timestamp |-> trn.ts, value |-> trn.value * (-1)]
    ELSE [wallet |-> trn.from, timestamp |-> trn.ts, value |-> trn.value]

TronRecord(trn, address) == Record(trn, trn.from = address)

BscRecord(trn, address) == Record(trn, Upper(trn.from) = Upper(address))

\* wallets[address].append(record) for every kept transfer: KeyError at the
\* first one when the local dict has no such address
AppendAll(acc, address, records) ==
    IF records = <<>> THEN acc
    ELSE IF address \notin DOMAIN acc.wallets THEN Acc(acc.wallets, "KeyError")
         ELSE Acc([acc.wallets EXCEPT ![address] = @ \o records], "")

\* TronWalletReader.get_transactions, one pass of the outer loop body
tron_transactions_item(acc, transactions) ==
    IF transactions.type # "dict" THEN Acc(acc.wallets, "AttributeError")
    ELSE IF "success" \notin transactions.keys \/ ~transactions.success THEN acc
    ELSE IF "data" \notin transactions.keys THEN Acc(acc.wallets, "KeyError")
         ELSE LET kept == SelectSeq(transactions.data, TronKept)
              IN  AppendAll(acc, transactions.wallet_address,
                            [j \in 1..Len(kept) |->
                                TronRecord(kept[j], transactions.wallet_address)])

\* BscScanWalletReader.get_transactions, one pass of the outer loop body
bsc_transactions_item(acc, transactions) ==
    IF transactions.type = "None" THEN Acc(acc.wallets, "AttributeError")
    ELSE IF transactions.type # "dict" THEN Acc(acc.wallets, "TypeError")
    ELSE IF "message" \notin transactions.keys THEN Acc(acc.wallets, "KeyError")
    ELSE IF Upper(transactions.message) # "OK" THEN acc
    ELSE IF "result" \notin transactions.keys THEN Acc(acc.wallets, "KeyError")
         ELSE LET kept == SelectSeq(transactions.data, BscKept)
              IN  AppendAll(acc, transactions.wallet_address,
                            [j \in 1..Len(kept) |->
                                BscRecord(kept[j], transactions.wallet_address)])

\* the loop over raw_data; an exception ends it
RECURSIVE balances_loop(_, _)
balances_loop(acc, raw_data) ==
    IF raw_data = <<>> \/ acc.raised # "" THEN acc
    ELSE balances_loop(IF kind = "tron" THEN tron_balance_item(acc, Head(raw_data))
                       ELSE bsc_balance_item(acc, Head(raw_data)),
                       Tail(raw_data))

RECURSIVE transactions_loop(_, _)
transactions_loop(acc, raw_data) ==
    IF raw_data = <<>> \/ acc.raised # "" THEN acc
    ELSE transactions_loop(IF kind = "tron"
                           THEN tron_transactions_item(acc, Head(raw_data))
                           ELSE bsc_transactions_item(acc, Head(raw_data)),
                           Tail(raw_data))

WalletSet == {wallets[i] : i \in Tasks}

Raised(exc) == [type |-> exc]

\* get_balances from the return of __fetch_urls to its own return
get_balances ==
    /\ phase = "gathered"
    /\ op = "get_balances"
    /\ LET acc == balances_loop(Acc([a \in WalletSet |-> 0], ""), responses)
       IN  IF acc.raised = ""
           THEN phase' = "returned" /\ out' = acc.wallets
           ELSE phase' = "raised" /\ out' = Raised(acc.raised)
    /\ UNCHANGED <<config, delay, url, result, response_status, response_url, op, pc, ret,
                   reply, issued, responses>>

\* get_transactions from the return of __fetch_urls to its own return
get_transactions ==
    /\ phase = "gathered"
    /\ op = "get_transactions"
    /\ LET acc == transactions_loop(Acc([a \in WalletSet |-> <<>>], ""), responses)
       IN  IF acc.raised = ""
           THEN phase' = "returned" /\ out' = acc.wallets
           ELSE phase' = "raised" /\ out' = Raised(acc.raised)
    /\ UNCHANGED <<config, delay, url, result, response_status, response_url, op, pc, ret,
                   reply, issued, responses>>

\* HTMLReader.get_pages returns the gathered tuple
get_pages ==
    /\ phase = "gathered"
    /\ op = "get_pages"
    /\ phase' = "returned"
    /\ out' = responses
    /\ UNCHANGED <<config, delay, url, result, response_status, response_url, op, pc, ret,
                   reply, issued, responses>>

\* ------------------------------------------------------- XeReader.get_rates
\* str.replace(',', '') and decimal.Decimal on the strings of the model
StripCommas(s) == IF s = "1,075" THEN "1075" ELSE s

Decimal(s) ==
    CASE s = "1075" -> 1075
      [] s = "10" -> 10
      [] s = "20" -> 20
      [] s = "30" -> 30
      [] s = "71" -> 71
      [] s = "72" -> 72
      [] s = "73" -> 73
      [] s = "74" -> 74
      [] s = "75" -> 75
      [] s = "76" -> 76
      [] s = "1" -> 1
      [] s = "2" -> 2
      [] OTHER -> 0

\* CurrencyRate without its clock reading
CurrencyRate(symbol, name, rate) == [symbol |-> symbol, name |-> name, rate |-> rate]

\* one pass of the loop body: html.fromstring needs a string, rate[0] needs a
\* match, meta_rate[1] a second word
xe_rates_item(acc, page) ==
    IF page.type # "str" THEN Acc(acc.wallets, "TypeError")
    ELSE IF page.rate = <<>> THEN Acc(acc.wallets, "IndexError")
    ELSE LET meta_rate == page.rate[1]
             len == Len(meta_rate)
         IN  IF len = 0 THEN acc
             ELSE IF len < 2 THEN Acc(acc.wallets, "IndexError")
             ELSE LET symbol == <<meta_rate[2], "/", meta_rate[len]>>
                  IN  Acc(DictSet(acc.wallets, symbol,
                                  CurrencyRate(symbol, symbol,
                                               Decimal(StripCommas(meta_rate[len - 1])))),
                          "")

RECURSIVE xe_rates_loop(_, _)
xe_rates_loop(acc, pages) ==
    IF pages = <<>> \/ acc.raised # "" THEN acc
    ELSE xe_rates_loop(xe_rates_item(acc, Head(pages)), Tail(pages))

\* the empty dict
EmptyDict == [x \in {} |-> None]

\* XeReader.get_rates from the return of get_pages to its own return
xe_get_rates ==
    /\ phase = "gathered"
    /\ kind = "xe"
    /\ LET acc == xe_rates_loop(Acc(EmptyDict, ""), responses)
       IN  IF acc.raised = ""
           THEN phase' = "returned" /\ out' = acc.wallets
           ELSE phase' = "raised" /\ out' = Raised(acc.raised)
    /\ UNCHANGED <<config, delay, url, result, response_status, response_url, op, pc, ret,
                   reply, issued, responses>>

\* --------------------------------------------------------- the feed readers
\* the characters of a string of the model
Chars(s) == IF s = "ab" THEN <<"a", "b">> ELSE <<s>>

\* ", ".join(symbols) as a string of characters
RECURSIVE Join(_)
Join(list) ==
    IF list = <<>> THEN <<>>
    ELSE IF Len(list) = 1 THEN Chars(list[1])
    ELSE Chars(list[1]) \o <<",", " ">> \o Join(Tail(list))

\* MOEXReader.symbols
symbols == Join(wallets)

\* s in t, on strings
Substr(s, t) ==
    \E k \in 0..(Len(t) - Len(s)) : SubSeq(t, k + 1, k + Len(s)) = s

\* the value of an expression, or the exception it raised
Value(v) == [value |-> v, raised |-> ""]

Raises(exc) == [value |-> None, raised |-> exc]

\* the dict a comprehension builds from rows: the last row of a key wins
\* (keys[n] is the key of rows[n])
LastOf(rows, keys, k) ==
    rows[CHOOSE n \in 1..Len(rows) :
            keys[n] = k /\ \A m \in (n + 1)..Len(rows) : keys[m] # k]

\* the expression YahooReader.get_rates returns: the iterable
\* json_data['quoteResponse']['result'] is evaluated before the filter
yahoo_rates(json_data) ==
    IF json_data.type # "dict" THEN Raises("TypeError")
    ELSE IF "quoteResponse" \notin json_data.keys THEN Raises("KeyError")
    ELSE LET rows == json_data.rows
             key == [n \in 1..Len(rows) |-> rows[n].symbol]
         IN  Value([k \in {rows[n].symbol : n \in 1..Len(rows)} |->
                       LET data == LastOf(rows, key, k)
                       IN  CurrencyRate(data.symbol, data.shortName,
                                        Decimal(data.regularMarketPrice))])

\* self.__moex_metadata of line 267
moex_metadata(json_data) ==
    LET rows == json_data.rows
        key == [n \in 1..Len(rows) |-> rows[n].secid]
    IN  [k \in {rows[n].secid : n \in 1..Len(rows)} |-> LastOf(rows, key, k)]

\* the rows of marketdata the comprehension of line 273 keeps
MoexKept(data) == data.waprice # "" /\ Substr(Chars(data.secid), symbols)

\* the two comprehensions of MOEXReader.get_rates
moex_rates(json_data) ==
    IF json_data.type # "dict" THEN Raises("TypeError")
    ELSE IF "securities" \notin json_data.keys \/ "marketdata" \notin json_data.keys
         THEN Raises("KeyError")
    ELSE LET metadata == moex_metadata(json_data)
             kept == SelectSeq(json_data.marketdata, MoexKept)
             key == [n \in 1..Len(kept) |-> kept[n].secid]
         IN  IF \E n \in 1..Len(kept) : kept[n].secid \notin DOMAIN metadata
             THEN Raises("KeyError")
             ELSE Value([k \in {kept[n].secid : n \in 1..Len(kept)} |->
                           LET data == LastOf(kept, key, k)
                           IN  [symbol |-> metadata[k].shortname,
                                name |-> metadata[k].secname,
                                rate |-> Decimal(data.waprice),
                                updated_at |-> data.systime]])

\* bool(json_data)
Truthy(json_data) == json_data.type = "dict" /\ json_data.keys # {}

\* the conditional expression GarantexReader.get_dom returns
garantex_dom(json_data) ==
    IF ~Truthy(json_data) THEN Value(None)
    ELSE IF ~({"asks", "bids", "timestamp"} \subseteq json_data.keys) THEN Raises("KeyError")
    ELSE IF json_data.asks = <<>> \/ json_data.bids = <<>> THEN Raises("IndexError")
    ELSE Value([market |-> "USDT/RUB",
                ask_price |-> Decimal(json_data.asks[1].price),
                ask_factor |-> Decimal(json_data.asks[1].factor),
                bid_price |-> Decimal(json_data.bids[1].price),
                bid_factor |-> Decimal(json_data.bids[1].factor)])

\* what the operation of a feed reader does with the outcome of its one call:
\* a ValueError of the call leaves the operation as it is
FeedOutcome(r) ==
    IF r = ValueError THEN Raises("ValueError")
    ELSE CASE kind = "yahoo" -> yahoo_rates(r)
           [] kind = "moex" -> moex_rates(r)
           [] OTHER -> garantex_dom(r)

\* the operation of a feed reader from the return of _get_raw_data to its own
\* return
feed_return(k) ==
    /\ phase = "gather"
    /\ kind = k
    /\ pc[1] = "done"
    /\ LET r == FeedOutcome(ret[1])
       IN  IF r.raised = ""
           THEN phase' = "returned" /\ out' = r.value
           ELSE phase' = "raised" /\ out' = Raised(r.raised)
    /\ UNCHANGED <<config, delay, url, result, response_status, response_url, op, pc, ret,
                   reply, issued, responses>>

\* YahooReader.get_rates
yahoo_get_rates == feed_return("yahoo")

\* MOEXReader.get_rates
moex_get_rates == feed_return("moex")

\* GarantexReader.get_dom
get_dom == feed_return("garantex")

\* the caller uses the reader for another operation: the reader keeps its
\* url, its stored result and its recorded status and response url
reuse ==
    /\ phase \in {"returned", "raised"}
    /\ phase' = "idle"
    /\ op' = ""
    /\ delay' = [i \in Tasks |-> 0]
    /\ pc' = [i \in Tasks |-> "none"]
    /\ ret' = [i \in Tasks |-> None]
    /\ reply' = [i \in Tasks |-> Pending]
    /\ issued' = [i \in Tasks |-> 0]
    /\ responses' = <<>>
    /\ out' = None
    /\ UNCHANGED <<config, url, result, response_status, response_url>>

Next ==
    \/ \E u \in {DefaultUrl(kind), <<>>} : url_setter(u)
    \/ \E o \in Ops(kind) : fetch_urls(o)
    \/ \E i \in Tasks : get_raw_data_raise(i)
    \/ \E i \in Tasks : get_raw_data_begin(i)
    \/ \E i \in Tasks : get_raw_data_request(i)
    \/ \E i \in Tasks : get_raw_data_connect_error(i)
    \/ \E i \in Tasks, st \in BatchStatusCodes : get_raw_data_response(i, st)
    \/ \E i \in Tasks : get_raw_data_read_error(i)
    \/ \E i \in Tasks : \E b \in Bodies(i) : get_raw_data_decoded(i, b)
    \/ gather
    \/ get_balances
    \/ get_transactions
    \/ get_pages
    \/ xe_get_rates

Spec == Init /\ [][Next]_vars

\* ------------------------------------------- construction and the setters
\* ''.join(value.split()).split(','), the items of the model being one
\* character long: what is left without the blanks and the commas
StripSplit(text) == SelectSeq(text, LAMBDA c : c \notin {",", " "})

\* a str of the model as the one item of a list
Whole(text) == IF Len(text) = 1 THEN text[1] ELSE "a, b"

\* the pairs XeReader supports (XE_SYMBOLS permuted)
XePairs == {"a", "b", "c", "d"}

\* the stored target list, or the exception raised
Stored(list) == [wallets |-> list, raised |-> ""]

Rejected(exc) == [wallets |-> <<>>, raised |-> exc]

\* the isinstance chain of the wallets setters and of HTMLReader.__init__
str_or_list(v) ==
    IF v.shape = "str" THEN Stored(StripSplit(v.text))
    ELSE IF v.shape = "list" THEN Stored(v.items)
    ELSE Rejected("ValueError")

\* YahooReader.__init__: [symbols], the isinstance test, ",".join(symbols)
yahoo_init(v) ==
    IF v.shape = "str" THEN Stored(<<Whole(v.text)>>)
    ELSE IF v.shape # "list" THEN Rejected("ValueError")
    ELSE IF v.of # "str" THEN Rejected("TypeError")
    ELSE Stored(v.items)

\* MOEXReader.__init__: ", ".join(symbols) of a list, then the isinstance test
moex_init(v) ==
    IF v.shape = "list"
    THEN IF v.of # "str" THEN Rejected("TypeError") ELSE Stored(v.items)
    ELSE IF v.shape # "str" THEN Rejected("ValueError")
    ELSE Stored(<<Whole(v.text)>>)

\* GarantexReader.__init__: the market must be a str
garantex_init(v) ==
    IF v.shape # "str" THEN Rejected("ValueError") ELSE Stored(<<Whole(v.text)>>)

\* XeReader.__init__: split a str, the isinstance test, the issubset test.
\* set(symbols) raises TypeError on an unhashable item, and an item that is
\* no string fails the subset test and then raises TypeError in the str.join
\* of the error message
xe_init(v) ==
    LET list == IF v.shape = "str" THEN StripSplit(v.text) ELSE v.items
    IN  IF v.shape \notin {"str", "list"} THEN Rejected("ValueError")
        ELSE IF v.shape = "list" /\ v.of # "str" THEN Rejected("TypeError")
        ELSE IF ~(Range(list) \subseteq XePairs) THEN Rejected("ValueError")
        ELSE Stored(list)

\* TronWalletReader.wallets setter: the isinstance chain stores the list, then
\* the dict comprehension of urls hashes every item and raises TypeError on an
\* item that is itself a list, the list staying stored
tron_wallets(v) ==
    IF v.shape = "list" /\ v.of = "list"
    THEN [wallets |-> v.items, raised |-> "TypeError"]
    ELSE str_or_list(v)

\* __init__ of a reader of kind k with the target set v
init_outcome(k, v) ==
    CASE k = "yahoo" -> yahoo_init(v)
      [] k = "moex" -> moex_init(v)
      [] k = "garantex" -> garantex_init(v)
      [] k = "xe" -> xe_init(v)
      [] k = "tron" -> tron_wallets(v)
      [] OTHER -> str_or_list(v)

\* no reader yet
InitConfig ==
    /\ kind \in Kinds \cup FeedKinds
    /\ wallets = <<>>
    /\ given = Supplied("None", <<>>, <<>>, "")
    /\ usdt_contract = TRON_USDT_CONTRACT
    /\ url = <<>>
    /\ tables = NoTables
    /\ result = None
    /\ response_status = 0
    /\ response_url = <<>>
    /\ op = ""
    /\ delay = <<>>
    /\ phase = "unbuilt"
    /\ pc = <<>>
    /\ ret = <<>>
    /\ reply = <<>>
    /\ issued = <<>>
    /\ responses = <<>>
    /\ out = None

\* the constructor of the reader, called with the target set v and, for the
\* wallet readers, the contract c
init(v, c) ==
    /\ phase = "unbuilt"
    /\ usdt_contract' = c
    /\ op' = "init"
    /\ given' = v
    /\ LET r == init_outcome(kind, v)
       IN  IF r.raised = ""
           THEN /\ wallets' = r.wallets
                /\ url' = DefaultUrl(kind)
                /\ tables' = Built(kind, r.wallets, DefaultUrl(kind), c)
                /\ phase' = "idle"
                /\ out' = None
           ELSE /\ phase' = "raised"
                /\ out' = Raised(r.raised)
                /\ UNCHANGED <<wallets, url, tables>>
    /\ UNCHANGED <<kind, result, response_status, response_url, delay,
                   pc, ret, reply, issued, responses>>

\* TronWalletReader.wallets / BscScanWalletReader.wallets assigned v: the
\* isinstance chain raises before anything is stored; the tables are rebuilt
\* after the list is stored
wallets_setter(v) ==
    /\ phase = "idle"
    /\ kind \in {"tron", "bsc"}
    /\ op' = "wallets"
    /\ given' = v
    /\ LET r == IF kind = "tron" THEN tron_wallets(v) ELSE str_or_list(v)
       IN  IF r.raised = ""
           THEN /\ wallets' = r.wallets
                /\ tables' = Built(kind, r.wallets, url, usdt_contract)
                /\ out' = None
           ELSE /\ wallets' = IF r.raised = "ValueError" THEN wallets ELSE r.wallets
                /\ tables' = tables
                /\ out' = Raised(r.raised)
    /\ UNCHANGED <<kind, usdt_contract, url, result, response_status, response_url, delay,
                   phase, pc, ret, reply, issued, responses>>

\* HTMLReader.urls assigned v: a value that is neither str nor list falls
\* through both tests
urls_setter(v) ==
    /\ phase = "idle"
    /\ kind \in {"html", "xe"}
    /\ op' = "urls"
    /\ given' = v
    /\ wallets' = IF v.shape = "str" THEN StripSplit(v.text)
                  ELSE IF v.shape = "list" THEN v.items
                  ELSE wallets
    /\ out' = None
    /\ UNCHANGED <<kind, usdt_contract, url, tables, result, response_status, response_url,
                   delay, phase, pc, ret, reply, issued, responses>>

NextConfig ==
    \/ \E v \in TargetValues :
          \E c \in (IF WalletBatch THEN {DefaultContract(kind), OTHER_CONTRACT}
                    ELSE {TRON_USDT_CONTRACT}) : init(v, c)
    \/ \E v \in TargetValues : wallets_setter(v)
    \/ \E v \in TargetValues : urls_setter(v)
    \/ \E u \in {DefaultUrl(kind), <<>>} : url_setter(u)

SpecConfig == InitConfig /\ [][NextConfig]_vars

\* the feed readers, used for one operation after another
InitFeed == Constructed(FeedKinds)

NextFeed ==
    \/ \E u \in {DefaultUrl(kind), <<>>} : url_setter(u)
    \/ \E o \in Ops(kind) : feed_call(o)
    \/ \E i \in Tasks : get_raw_data_raise(i)
    \/ \E i \in Tasks : get_raw_data_begin(i)
    \/ \E i \in Tasks : get_raw_data_request(i)
    \/ \E i \in Tasks : get_raw_data_connect_error(i)
    \/ \E i \in Tasks, st \in StatusCodes : get_raw_data_response(i, st)
    \/ \E i \in Tasks : get_raw_data_read_error(i)
    \/ \E i \in Tasks : \E b \in Bodies(i) : get_raw_data_decoded(i, b)
    \/ yahoo_get_rates
    \/ moex_get_rates
    \/ get_dom
    \/ reuse

SpecFeed == InitFeed /\ [][NextFeed]_vars

\* ------------------------------------------------------------ properties
\* one step of task i, whichever it is: the event loop runs every task that is
\* ready, fires every timer, and the transport ends every request in one of
\* its outcomes, hanging being one of them
TaskStep(i) ==
    /\ i \in Tasks
    /\ \/ get_raw_data_raise(i)
       \/ get_raw_data_begin(i)
       \/ get_raw_data_request(i)
       \/ get_raw_data_connect_error(i)
       \/ get_raw_data_hang(i)
       \/ \E st \in BatchStatusCodes : get_raw_data_response(i, st)
       \/ get_raw_data_read_error(i)
       \/ \E b \in OkBodies(i) : get_raw_data_decoded(i, b)

\* the readers constructed with the default contract
InitDefault == Init /\ usdt_contract = DefaultContract(kind)

\* the scheduling of the event loop: no ready task is left out for ever, and
\* gather resumes its caller once every task is done
\* the batch dispatch alone, up to the return of gather: what a payload holds
\* has no part in the scheduling, so every request that is answered and
\* decoded gets a successful body
NextDispatch ==
    \/ \E u \in {DefaultUrl(kind), <<>>} : url_setter(u)
    \/ \E o \in Ops(kind) : fetch_urls(o)
    \/ \E i \in Tasks : get_raw_data_raise(i)
    \/ \E i \in Tasks : get_raw_data_begin(i)
    \/ \E i \in Tasks : get_raw_data_request(i)
    \/ \E i \in Tasks : get_raw_data_connect_error(i)
    \/ \E i \in Tasks : get_raw_data_hang(i)
    \/ \E i \in Tasks, st \in BatchStatusCodes : get_raw_data_response(i, st)
    \/ \E i \in Tasks : get_raw_data_read_error(i)
    \/ \E i \in Tasks : \E b \in OkBodies(i) : get_raw_data_decoded(i, b)
    \/ gather

FairSpec ==
    /\ InitDefault
    /\ [][NextDispatch]_vars
    /\ \A i \in 1..MaxWallets : WF_vars(TaskStep(i))
    /\ WF_vars(gather)

\* ================================================================ properties
Gathered == phase \in {"gathered", "returned", "raised"}

Finished == phase \in {"returned", "raised"}

\* the request of task i ended in a transport-level or decode error
FailedInTransit(i) == reply[i].type \in {"connect_error", "read_error"}

\* the body has the shape the adapter expects
Recognized(b) == b.keys = ExpectedKeys

\* the provider's verdict in a decoded body
ReportsOk(b) == Recognized(b) /\ (IF kind = "tron" THEN b.success ELSE Upper(b.message) = "OK")

ReportsFailure(i) == reply[i].type = "dict" /\ Recognized(reply[i]) /\ ~ReportsOk(reply[i])

HadKey(i) == reply[i].type = "dict" /\ reply[i].wallet_address # NoKey

\* C1: in a wallet batch the gathered result has one slot per target, and a
\* payload in slot i answers the request of target i and is tagged with the
\* wallet of target i, whatever the completion order and the failures
C1_SlotsBelongToTargets ==
    (WalletBatch /\ Gathered) =>
        /\ Len(responses) = N
        /\ \A i \in Tasks :
              responses[i].type = "dict" =>
                  /\ responses[i].src = wallets[i]
                  /\ responses[i].wallet_address = wallets[i]

\* C2: a _get_raw_data call whose request ends in a transport-level or decode
\* error returns None, also when sibling calls on the same reader succeeded
\* before it failed
C2_ErrorResolvesToNone ==
    \A i \in Tasks : (pc[i] = "done" /\ FailedInTransit(i)) => ret[i] = None

\* C3: a mapping returned by get_balances has exactly the configured wallets
\* as its keys
C3_BalanceKeysAreWallets ==
    (op = "get_balances" /\ phase = "returned") => DOMAIN out = WalletSet

\* C4: in get_balances a wallet whose response reports provider failure is in
\* the returned mapping with the sentinel -1, whatever the other wallets did
C4_ReportedFailureIsSentinel ==
    (op = "get_balances" /\ Finished) =>
        \A i \in Tasks :
            ReportsFailure(i) =>
                /\ phase = "returned"
                /\ wallets[i] \in DOMAIN out
                /\ out[wallets[i]] = -1

\* the value one gathered payload alone gives its wallet
OwnValue(j) ==
    LET acc == IF op = "get_balances"
               THEN balances_loop(Acc([a \in WalletSet |-> 0], ""), <<responses[j]>>)
               ELSE transactions_loop(Acc([a \in WalletSet |-> <<>>], ""),
                                      <<responses[j]>>)
    IN  acc.wallets[wallets[j]]

\* task j fetched a clean successful payload of its own
Succeeded(j) ==
    /\ reply[j].type = "dict"
    /\ ~HadKey(j)
    /\ ReportsOk(reply[j])
    /\ responses[j] = Inject(j, reply[j])

\* C5: when one wallet's fetch resolves to None or to a captured exception
\* while the others succeed, get_balances / get_transactions returns, the
\* failed wallet has -1 (balances) or an empty list (transactions) and the
\* others have their real values
C5_ItemFailureDoesNotAbort ==
    (WalletBatch /\ Finished) =>
        \A i \in Tasks :
            ( /\ responses[i].type \in {"None", "ValueError"}
              /\ \A j \in Tasks \ {i} : Succeeded(j) ) =>
                /\ phase = "returned"
                /\ wallets[i] \in DOMAIN out
                /\ IF op = "get_balances" THEN out[wallets[i]] = -1
                   ELSE out[wallets[i]] = <<>>
                /\ \A j \in Tasks \ {i} : out[wallets[j]] = OwnValue(j)

\* C6: a decoded payload that already has the key wallet_address makes its
\* own call yield no payload, and the siblings return their own tagged
\* payloads
C6_CollisionYieldsNoPayload ==
    \A i \in Tasks :
        (WalletBatch /\ pc[i] = "done" /\ HadKey(i)) =>
            /\ ret[i] = None
            /\ \A j \in Tasks \ {i} :
                  (pc[j] = "done" /\ reply[j].type = "dict" /\ ~HadKey(j)) =>
                      ret[j] = Inject(j, reply[j])

\* C7: in every batch dispatch an exception raised by one task stops no
\* sibling: the dispatch returns one slot per target and does not raise, the
\* failing task's slot holds the error object, and every sibling has issued
\* its request, got its answer and has its own outcome in its slot
C7_ExceptionDoesNotStopSiblings ==
    /\ phase = "raised" => Len(responses) = N
    /\ Gathered =>
          /\ Len(responses) = N
          /\ \A i \in Tasks :
                IF UrlMissing(i)
                THEN responses[i] = ValueError /\ issued[i] = 0
                ELSE /\ issued[i] = 1
                     /\ reply[i] # Pending
                     /\ responses[i] = ret[i]
                     /\ responses[i] # ValueError

\* a batch where one task raised and a sibling fetched its page
C7_Witness ==
    /\ phase = "gathered"
    /\ \E i, j \in Tasks :
          /\ i # j
          /\ responses[i] = ValueError
          /\ responses[j].type = "str"
          /\ issued[j] = 1

\* two addresses name the same account
SameAddress(x, y) == IF kind = "bsc" THEN Upper(x) = Upper(y) ELSE x = y

\* the transfers of task i's answer that pass the adapter's filter
KeptTransfers(i) ==
    SelectSeq(reply[i].data, LAMBDA t : IF kind = "tron" THEN TronKept(t) ELSE BscKept(t))

\* C8: in a mapping returned by get_transactions the list of a wallet has one
\* record per kept transfer of its answer, in the answer's order; the record
\* is {receiver, -v} when the wallet is the sender and {sender, +v} when it
\* is the receiver
C8_DirectionAndOrder ==
    (op = "get_transactions" /\ phase = "returned") =>
        \A i \in Tasks :
            (reply[i].type = "dict" /\ ReportsOk(reply[i])) =>
                LET kept == KeptTransfers(i)
                    recs == out[wallets[i]]
                IN  /\ Len(recs) = Len(kept)
                    /\ \A p \in 1..Len(kept) :
                          /\ SameAddress(kept[p].from, wallets[i]) =>
                                /\ recs[p].wallet = kept[p].to
                                /\ recs[p].value = 0 - kept[p].value
                          /\ ( /\ SameAddress(kept[p].to, wallets[i])
                               /\ ~SameAddress(kept[p].from, wallets[i]) ) =>
                                /\ recs[p].wallet = kept[p].from
                                /\ recs[p].value = kept[p].value

\* C9: in get_transactions a wallet whose response reports failure is in the
\* returned mapping with an empty list, and the keys of the mapping are the
\* configured wallets, whatever the other wallets did
C9_ReportedFailureIsEmptyList ==
    (op = "get_transactions" /\ Finished) =>
        \A i \in Tasks :
            ReportsFailure(i) =>
                /\ phase = "returned"
                /\ DOMAIN out = WalletSet
                /\ out[wallets[i]] = <<>>

\* every transfer a provider answered with in this batch
AnsweredTransfers == UNION {Range(reply[i].data) : i \in {j \in Tasks : reply[j].type = "dict"}}

\* every record of the returned mapping
ReturnedRecords == UNION {Range(out[w]) : w \in DOMAIN out}

\* C10: every record returned by get_transactions stems from a transfer of
\* the contract the instance is configured to track (usdt_contract) whose
\* symbol is the tracked symbol
C10_OnlyTrackedContract ==
    (op = "get_transactions" /\ phase = "returned") =>
        \A r \in ReturnedRecords : \A t \in AnsweredTransfers :
            r \in {Record(t, TRUE), Record(t, FALSE)} =>
                /\ t.address = usdt_contract
                /\ Upper(t.symbol) = TrackedSymbol(kind)

\* every task of the batch returned its own decoded payload, tagged with its
\* own wallet
AllDecoded ==
    \A i \in Tasks :
        /\ responses[i].type = "dict"
        /\ responses[i].src = wallets[i]
        /\ responses[i].wallet_address = wallets[i]

\* C17: a wallet batch in which every request was decoded, one of them to a
\* mapping without the expected keys, finishes by returning (it does not
\* raise), and the wallets with a recognized payload still have their values
C17_UnrecognizedShapeDoesNotRaise ==
    (WalletBatch /\ Finished /\ AllDecoded
        /\ \E i \in Tasks : ~Recognized(responses[i])) =>
            /\ phase = "returned"
            /\ \A j \in Tasks : Recognized(responses[j]) => out[wallets[j]] = OwnValue(j)

\* a batch has been dispatched
Dispatched == phase # "idle"

\* the tasks that have not slept their delay yet
Waiting == {i \in Tasks : pc[i] \in {"created", "sleeping"}}

\* the k-th task waits base * k for one positive base: no zero delay, strictly
\* increasing delays
Staggered ==
    \A i, j \in Waiting :
        /\ delay[i] > 0
        /\ delay[i] % i = 0
        /\ delay[i] * j = delay[j] * i

\* a request is issued only after the requests of the tasks before it (a task
\* that raised ValueError issues none)
IssuedInOrder ==
    \A i, j \in Tasks :
        (j < i /\ issued[i] > 0) => (issued[j] > 0 \/ ret[j] = ValueError)

\* C18 as stated: in every batch dispatch, get_pages included, the k-th task
\* waits base_jitter * k with one positive base_jitter per batch, and the
\* requests are issued in iteration order
C18_EveryBatchStaggered == Dispatched => (Staggered /\ IssuedInOrder)

\* C18 amended: in every wallet batch the k-th task waits base_jitter * k with
\* one positive base_jitter per batch and the requests are issued staggered in
\* iteration order; in get_pages every task has delay 0 and the requests are
\* issued in iteration order with nothing between them
C18_WalletBatchesStaggered ==
    Dispatched =>
        /\ IssuedInOrder
        /\ WalletBatch => Staggered
        /\ ~WalletBatch => \A i \in Tasks : delay[i] = 0

\* the first task of a wallet batch has issued its request while the second
\* still sleeps its twice as long delay
C18_Witness ==
    /\ WalletBatch /\ N >= 2
    /\ delay[2] = 180
    /\ issued[1] = 1 /\ issued[2] = 0 /\ pc[2] = "sleeping"

\* the balance the response lists for the tracked contract, 0 when the response
\* has no token list or the list has no entry for the contract
ListedBalance(data, contract) ==
    LET listed == {e \in UNION {Range(item.trc20) : item \in Range(data)} :
                      e.contract = contract}
    IN  IF listed = {} THEN 0 ELSE (CHOOSE e \in listed : TRUE).amount

\* every payload of the batch has the expected keys
AllRecognized == \A i \in Tasks : Recognized(responses[i])

\* C19: TronWalletReader.get_balances maps every wallet whose response reports
\* success to the balance listed for the tracked contract, 0 when the response
\* has no token list or no entry for the contract (batches in which every
\* request was decoded to a recognized payload of its own)
C19_TronBalanceExtraction ==
    (kind = "tron" /\ op = "get_balances" /\ Finished /\ AllDecoded /\ AllRecognized) =>
        /\ phase = "returned"
        /\ \A j \in Tasks :
              responses[j].success =>
                  out[wallets[j]] = ListedBalance(responses[j].data, usdt_contract)

\* some request of the batch never completes
AnyHung == \E i \in Tasks : pc[i] = "hung"

\* every task has issued its request (or raised before it) and has reached its
\* own outcome, the hung ones being as far as they get
SiblingsSettled ==
    \A j \in Tasks :
        /\ pc[j] \in {"done", "hung"}
        /\ issued[j] = 1 \/ ret[j] = ValueError

\* C20: once a request of a batch hangs, every sibling task still issues its
\* request and reaches its own outcome, and the batch operation never returns
C20_HungBlocksOnlyItself ==
    /\ [](AnyHung => phase = "gather" /\ responses = <<>> /\ out = None)
    /\ AnyHung ~> SiblingsSettled

\* the first request hangs and a later sibling has its payload
C20_Witness ==
    /\ N >= 2
    /\ pc[1] = "hung"
    /\ pc[2] = "done" /\ issued[2] = 1 /\ ret[2].type \in {"dict", "str"}
    /\ phase = "gather"

\* every task of the URL batch returned the page of its own url
AllPages == \A i \in Tasks : responses[i].type = "str" /\ responses[i].src = wallets[i]

\* C11: XeReader.get_rates over pages one of which has zero matches for the
\* structural query returns without raising, and every page that did match
\* has its entry in the result
C11_ZeroMatchesSkipped ==
    (kind = "xe" /\ Finished /\ AllPages /\ \E i \in Tasks : responses[i].rate = <<>>) =>
        /\ phase = "returned"
        /\ \A j \in Tasks :
              responses[j].rate = << MetaRate(j) >> =>
                  <<wallets[j], "/", "RUB">> \in DOMAIN out

\* the one call of the operation returned the payload the feed answered with
OwnPayload == ret[1].type = "dict" /\ ret[1] = reply[1]

\* the security IDs the reader is configured with that have a price
Requested(json_data) ==
    {d.secid : d \in {r \in Range(json_data.marketdata) :
                        r.waprice # "" /\ r.secid \in Range(wallets)}}

\* C12: MOEXReader.get_rates over a payload of the feed returns one entry per
\* market-data row whose security ID is one of the configured symbols and whose
\* price is not empty, no other entry, each entry keyed by the security ID and
\* named by the securities row of the same ID
C12_MoexExactSymbols ==
    (kind = "moex" /\ Finished /\ OwnPayload /\ reply[1] \in MoexBodies) =>
        /\ phase = "returned"
        /\ DOMAIN out = Requested(ret[1])
        /\ \A k \in DOMAIN out :
              out[k].symbol = <<"short", k>> /\ out[k].name = <<"sec", k>>

\* C13: a _get_raw_data call made while the call-site url and the instance url
\* are both empty ends at once with ValueError, having slept no delay and
\* issued no request, and leaves the stored result, the status and the
\* response url as they were
C13_UrlCheckFailsFirst ==
    [][\A i \in Tasks :
          (pc[i] = "created" /\ UrlMissing(i) /\ pc'[i] # pc[i]) =>
              /\ pc'[i] = "done" /\ ret'[i] = ValueError
              /\ issued'[i] = 0 /\ reply'[i] = Pending
              /\ result' = result
              /\ response_status' = response_status
              /\ response_url' = response_url]_vars

\* a call fails the url check on a reader that holds the payload, the status
\* and the url of an earlier call
C13_Witness ==
    /\ ret[1] = ValueError /\ issued[1] = 0
    /\ result.type = "dict" /\ response_status = 200 /\ response_url # <<>>

C16_NoPayloadNoRaise ==
    (kind \in {"yahoo", "moex"} /\ Finished /\ ret[1] = None) =>
        /\ phase = "returned"
        /\ out \in {None, EmptyDict}

\* the value is neither a string nor a list of strings
InvalidTargets(v) == ~(v.shape = "str" \/ (v.shape = "list" /\ v.of = "str"))

\* C14: a constructor or a setter given a target set that is neither a string
\* nor a sequence of strings ends with ValueError
C14_InvalidTargetsRejected ==
    (op \in {"init", "wallets", "urls"} /\ InvalidTargets(given)) => out = ValueError

\* task i receives the head of its response in this step
Receives(i) == pc[i] = "requesting" /\ pc'[i] = "reading"

\* C21: status and response_url start as 0 and empty; a step in which a call
\* receives a response sets them to that response's status and url; every
\* other step (a failed URL check, a request that fails before any response,
\* a body that fails to decode, a setter, a new call) leaves both as they are
C21_StatusOfLastResponse ==
    /\ response_status = 0 /\ response_url = <<>>
    /\ [][/\ \A i \in Tasks :
               Receives(i) =>
                   /\ response_status' \in StatusCodes
                   /\ response_url' = EffectiveUrl(i)
          /\ (\A i \in Tasks : ~Receives(i)) =>
                   /\ response_status' = response_status
                   /\ response_url' = response_url]_vars

\* a call failed before any response while the reader still shows the
\* response of an earlier call
C21_Witness ==
    /\ pc[1] = "done" /\ reply[1].type = "connect_error"
    /\ response_status = 429 /\ response_url # <<>>

\* the request tables match the wallet list
InStep ==
    /\ kind = "tron" =>
          /\ DOMAIN tables.urls = Range(wallets)
          /\ DOMAIN tables.trnx_urls = Range(wallets)
    /\ kind = "bsc" =>
          /\ Len(tables.balance_params_list) = Len(wallets)
          /\ Len(tables.trnx_params_list) = Len(wallets)
          /\ \A i \in 1..Len(wallets) :
                /\ tables.balance_params_list[i].address = wallets[i]
                /\ tables.trnx_params_list[i].address = wallets[i]

\* C22: whatever has been assigned to wallets of a TronWalletReader or a
\* BscScanWalletReader, the request tables match the wallet list, and an
\* assignment that raises ValueError changes neither the list nor the tables
C22_TablesInStep ==
    /\ []((phase = "idle" /\ WalletBatch) => InStep)
    /\ [][(op' = "wallets" /\ out' = ValueError) => UNCHANGED <<wallets, tables>>]_vars

\* what a call can return: None, a decoded document, a text
Values == {"None", "dict", "list", "str"}

\* task i has passed the URL check and its request has ended
Ended(i) == pc[i] = "done" /\ reply[i] # Pending

\* C23: a call that passed the URL check returns a value however its request
\* ends (no response, undecodable body, key collision, document that is no
\* mapping); a call that ends without a request raised the ValueError of the
\* URL check, and no other error object is found in a slot of the gathered
\* tuple
C23_OnlyUrlCheckRaises ==
    /\ \A i \in Tasks :
          /\ Ended(i) => ret[i].type \in Values
          /\ (pc[i] = "done" /\ ~Ended(i)) => ret[i] = ValueError /\ issued[i] = 0
    /\ Gathered =>
          \A i \in Tasks : responses[i].type \notin Values => responses[i] = ValueError

\* a gathered batch in which one request failed before any response and one
\* body was an array
C23_Witness ==
    /\ Gathered
    /\ \E i, j \in Tasks :
          /\ reply[i].type = "connect_error"
          /\ reply[j].type = "list" /\ responses[j].type = "list"

\* C24: no target ever has more than one request issued for it, and under the
\* fair scheduling of the event loop a dispatched batch whose requests all
\* complete or fail (none hangs) reaches the return of gather
C24_DispatchTerminates ==
    /\ [](\A i \in Tasks : issued[i] <= 1)
    /\ (phase = "gather") ~> (phase = "gathered" \/ AnyHung)

\* the dispatch of a full batch has returned, every target requested once,
\* one of the requests having failed and one having been answered
C24_Witness ==
    /\ phase = "gathered" /\ N = MaxWallets
    /\ \A i \in Tasks : issued[i] = 1
    /\ \E i, j \in Tasks :
          /\ reply[i].type \in {"connect_error", "read_error"}
          /\ reply[j].type \in {"dict", "str"}

====
